---- MODULE Spec2Model ----
(***************************************************************************)
(* Model of moderation-agent/main.py: the HTTP cloud function              *)
(* moderate_content, its three scanners and the module initialization.     *)
(* Python values are modelled as tagged records [t, v, o]: t the type, v the *)
(* text of a scalar, o the key/value pairs of a dict.  An exception is a     *)
(* result record whose "raised" field is TRUE and whose "exc" is str(e).     *)
(***************************************************************************)
EXTENDS Integers, Sequences, FiniteSets, TLC

VARIABLES text_model, vision_model, phase, request, response, calls, branch, error, served

vars == <<text_model, vision_model, phase, request, response, calls, branch, error, served>>

\* Number of invocations of the function one process serves in the model.
MaxRequests == 2

-----------------------------------------------------------------------------
(* Python / JSON values *)

JNull == [t |-> "null", v |-> "null", o |-> {}]
JTrue == [t |-> "bool", v |-> "true", o |-> {}]
JFalse == [t |-> "bool", v |-> "false", o |-> {}]
JStr(s) == [t |-> "str", v |-> s, o |-> {}]
JNum(s) == [t |-> "num", v |-> s, o |-> {}]
JArr(s) == [t |-> "array", v |-> s, o |-> {}]
\* A dict, from its set of <<key, value>> pairs.
JObj(pairs) == [t |-> "object", v |-> "", o |-> pairs]

\* Python's == between a request value and a string literal.
PyEqStr(j, s) == j.t = "str" /\ j.v = s

\* Python truthiness, as used by `if x:`, `not x` and `a if x else b`.
Truthy(j) ==
    CASE j.t = "null" -> FALSE
      [] j.t = "bool" -> j.v = "true"
      [] j.t = "num" -> j.v # "0"
      [] j.t = "str" -> j.v # ""
      [] j.t = "array" -> j.v # "[]"
      [] j.t = "object" -> j.o # {}

\* The keys of a dict, given as its set of pairs.
Keys(d) == {p[1] : p \in d}

\* dict.get(key, default)
DictGet(d, key, default) ==
    IF key \in Keys(d) THEN (CHOOSE p \in d : p[1] = key)[2] ELSE default

\* str(x) as used by an f-string
PyStr(j) == IF j.t = "null" THEN "None" ELSE j.v

\* str.endswith
EndsWith(s, suffix) ==
    /\ Len(s) >= Len(suffix)
    /\ SubSeq(s, Len(s) - Len(suffix) + 1, Len(s)) = suffix

StartsWith(s, prefix) ==
    /\ Len(s) >= Len(prefix)
    /\ SubSeq(s, 1, Len(prefix)) = prefix

\* The positions of s where an occurrence of old starts.
Occurrences(s, old) ==
    {i \in 1..(Len(s) - Len(old) + 1) : SubSeq(s, i, i + Len(old) - 1) = old}

\* str.replace(old, ""): every occurrence of old, leftmost first and not
\* overlapping, is dropped.
RECURSIVE Remove(_, _)
Remove(s, old) ==
    LET hits == Occurrences(s, old)
    IN  IF hits = {} THEN s
        ELSE LET i == CHOOSE h \in hits : \A g \in hits : h <= g
             IN  SubSeq(s, 1, i - 1) \o Remove(SubSeq(s, i + Len(old), Len(s)), old)

Whitespace == {" ", "\n", "\t", "\r"}

\* The first position at or after i that holds no whitespace (Len(s) + 1 if none).
RECURSIVE FirstInk(_, _)
FirstInk(s, i) ==
    IF i > Len(s) \/ SubSeq(s, i, i) \notin Whitespace THEN i ELSE FirstInk(s, i + 1)

\* The last position at or before j that holds no whitespace (0 if none).
RECURSIVE LastInk(_, _)
LastInk(s, j) ==
    IF j < 1 \/ SubSeq(s, j, j) \notin Whitespace THEN j ELSE LastInk(s, j - 1)

\* str.strip()
Strip(s) == SubSeq(s, FirstInk(s, 1), LastInk(s, Len(s)))

-----------------------------------------------------------------------------
(* Constants of the module *)

TEXT_MODEL == "gemini-2.0-flash-exp"
VISION_MODEL == "gemini-2.0-flash-exp"

\* The HTTP status codes the handler returns.
HTTP_NO_CONTENT == 204
HTTP_OK == 200
HTTP_BAD_REQUEST == 400
HTTP_SERVER_ERROR == 500

-----------------------------------------------------------------------------
(* Module initialization: the two model handles after import *)

\* api_key: whether GOOGLE_API_KEY is set; text_ctor_ok / vision_ctor_ok:
\* whether genai.GenerativeModel(...) returns rather than raises.  The result
\* is <<text_model, vision_model>>, TRUE for a handle and FALSE for None.
ModuleInit(api_key, text_ctor_ok, vision_ctor_ok) ==
    IF ~api_key THEN <<FALSE, FALSE>>
    ELSE IF ~text_ctor_ok THEN <<FALSE, FALSE>>
    ELSE IF ~vision_ctor_ok THEN <<TRUE, FALSE>>
    ELSE <<TRUE, TRUE>>

-----------------------------------------------------------------------------
(* Results of a call: a returned value or a raised exception, with the     *)
(* external calls made on the way.  origin names the statement that raised *)
(* and caught the except clause that turned the exception into a value;    *)
(* both survive the catch, so that the state records what went wrong.      *)

NoVerdict == [is_safe |-> JNull, moderation_status |-> "", flag_reason |-> JNull,
              model_used |-> ""]

Return(value, log) ==
    [raised |-> FALSE, exc |-> "", origin |-> "none", caught |-> "none",
     value |-> value, calls |-> log]

Raise(origin, exc, log) ==
    [raised |-> TRUE, exc |-> exc, origin |-> origin, caught |-> "none",
     value |-> NoVerdict, calls |-> log]

\* One external call as recorded in the log: what was called, with what, and
\* what the outside world answered.
Call(op, arg, out) == [op |-> op, arg |-> arg, out |-> out]

-----------------------------------------------------------------------------
(* json.loads on the oracle's cleaned output *)

\* The documents json.loads accepts among the texts of the model, with the
\* value each parses to.  Every other text of the model is not JSON.
JsonTable ==
    ("{\"is_safe\": true, \"flag_reason\": null}"
        :> JObj({<<"is_safe", JTrue>>, <<"flag_reason", JNull>>}))
    @@ ("{\"is_safe\": false, \"flag_reason\": \"hate\"}"
        :> JObj({<<"is_safe", JFalse>>, <<"flag_reason", JStr("hate")>>}))
    @@ ("{\"flag_reason\": \"spam\"}" :> JObj({<<"flag_reason", JStr("spam")>>}))
    @@ ("{\"is_safe\": null}" :> JObj({<<"is_safe", JNull>>}))
    @@ ("{\"is_safe\": \"no\"}" :> JObj({<<"is_safe", JStr("no")>>}))
    @@ ("{\"is_safe\": \"\"}" :> JObj({<<"is_safe", JStr("")>>}))
    @@ ("{\"is_safe\": 0}" :> JObj({<<"is_safe", JNum("0")>>}))
    @@ ("{\"is_safe\": 1}" :> JObj({<<"is_safe", JNum("1")>>}))
    @@ ("{}" :> JObj({}))
    @@ ("[true]" :> JArr("[true]"))
    @@ ("\"safe\"" :> JStr("safe"))

JsonLoads(s) ==
    IF s \in DOMAIN JsonTable
    THEN [ok |-> TRUE, value |-> JsonTable[s]]
    ELSE [ok |-> FALSE, value |-> JNull]

PyTypeName(j) ==
    CASE j.t = "null" -> "NoneType"
      [] j.t = "bool" -> "bool"
      [] j.t = "num" -> "int"
      [] j.t = "str" -> "str"
      [] j.t = "array" -> "list"
      [] j.t = "object" -> "dict"

-----------------------------------------------------------------------------
(* The verdict a scanner builds from the oracle's answer *)

\* The Markdown code fence, three backquotes in the source.  A TLA+ string
\* cannot hold a backquote, so the model writes the fence with carets.
Fence == "^^^"

\* response.text.replace(<fence>json, '').replace(<fence>, '').strip()
Clean(text) == Strip(Remove(Remove(text, Fence \o "json"), Fence))

\* "approved" if is_safe else "flagged"
StatusOf(is_safe) == IF Truthy(is_safe) THEN "approved" ELSE "flagged"

\* Faulty variant of IsSafeOf: a missing is_safe counts as safe.
IsSafeOf_DefaultTrue(data) == DictGet(data, "is_safe", JTrue)

\* data.get("is_safe", False)
IsSafeOf(data) == DictGet(data, "is_safe", JFalse)

\* The dict a scanner returns after json.loads succeeded with `data`.
VerdictOf(data, model_name) ==
    [is_safe |-> IsSafeOf(data),
     moderation_status |-> StatusOf(IsSafeOf(data)),
     flag_reason |-> DictGet(data, "flag_reason", JNull),
     model_used |-> model_name]

\* What follows model.generate_content(...) in both scanners: `out` is what the
\* oracle did, `log` the external calls made so far, this one included.
Normalize(out, model_name, log) ==
    IF out.kind = "raise" THEN Raise("oracle_call", out.text, log)
    ELSE IF out.kind = "blocked" THEN Raise("oracle_text", out.text, log)
    ELSE LET parsed == JsonLoads(Clean(out.text))
         IN  IF ~parsed.ok
             THEN Raise("json_parse", "Expecting value: line 1 column 1 (char 0)", log)
             ELSE IF parsed.value.t # "object"
             THEN Raise("not_object",
                        "'" \o PyTypeName(parsed.value) \o "' object has no attribute 'get'",
                        log)
             ELSE Return(VerdictOf(parsed.value.o, model_name), log)

\* The part of the prompt that depends on the input.
TextPrompt(text) == "Input Text: \"" \o PyStr(text) \o "\""

\* _scan_text(text); the except clause re-raises what it caught.
_scan_text(text, env) ==
    Normalize(env.oracle, TEXT_MODEL, <<Call("oracle", TextPrompt(text), env.oracle)>>)

-----------------------------------------------------------------------------
(* base64.b64decode *)

B64Alphabet ==
    {"A","B","C","D","E","F","G","H","I","J","K","L","M","N","O","P","Q","R","S","T",
     "U","V","W","X","Y","Z","a","b","c","d","e","f","g","h","i","j","k","l","m","n",
     "o","p","q","r","s","t","u","v","w","x","y","z","0","1","2","3","4","5","6","7",
     "8","9","+","/"}

RECURSIVE CountIn(_, _)
CountIn(s, chars) ==
    IF Len(s) = 0 THEN 0
    ELSE (IF SubSeq(s, 1, 1) \in chars THEN 1 ELSE 0) + CountIn(SubSeq(s, 2, Len(s)), chars)

\* Characters outside the alphabet are discarded; what is left must be whole
\* groups of four, the last one filled with "=".
b64decode(j) ==
    IF j.t # "str"
    THEN [ok |-> FALSE, data |-> "",
          exc |-> "argument should be a bytes-like object or ASCII string, not '"
                  \o PyTypeName(j) \o "'"]
    ELSE LET n == CountIn(j.v, B64Alphabet)
             pads == CountIn(j.v, {"="})
         IN  IF n % 4 = 1
             THEN [ok |-> FALSE, data |-> "",
                   exc |-> "Invalid base64-encoded string: number of data characters cannot be 1 more than a multiple of 4"]
             ELSE IF (n % 4 = 2 /\ pads < 2) \/ (n % 4 = 3 /\ pads < 1)
             THEN [ok |-> FALSE, data |-> "", exc |-> "Incorrect padding"]
             ELSE [ok |-> TRUE, data |-> "b64:" \o j.v, exc |-> ""]

-----------------------------------------------------------------------------
(* _scan_image *)

NoImageVerdict ==
    [is_safe |-> JTrue, moderation_status |-> "approved",
     flag_reason |-> JStr("No image provided"), model_used |-> VISION_MODEL]

\* vision_model.generate_content([prompt, image_part]) and what follows it;
\* with vision_model None the attribute lookup raises and nothing is sent.
VisionCall(vm, image_data, env, log) ==
    IF ~vm
    THEN Raise("no_vision_model",
               "'NoneType' object has no attribute 'generate_content'", log)
    ELSE Normalize(env.oracle, VISION_MODEL,
                   Append(log, Call("oracle", "image/jpeg:" \o image_data, env.oracle)))

\* Faulty variant of Fetch: a failed connection is tried a second time.
Fetch_Retry(media_url, env) ==
    IF media_url.t # "str"
    THEN [ok |-> FALSE, origin |-> "bad_url_type", data |-> "", log |-> <<>>,
          exc |-> "Invalid type for url"]
    ELSE LET once == Call("fetch", media_url.v, env.fetch)
         IN  IF env.fetch.kind = "connect_error"
             THEN [ok |-> FALSE, origin |-> "fetch", data |-> "", log |-> <<once, once>>,
                   exc |-> env.fetch.text]
             ELSE IF env.fetch.kind = "http_error"
             THEN [ok |-> FALSE, origin |-> "http_status", data |-> "", log |-> <<once>>,
                   exc |-> env.fetch.text]
             ELSE [ok |-> TRUE, origin |-> "none", data |-> "url:" \o media_url.v,
                   log |-> <<once>>, exc |-> ""]

\* client.get(media_url); response.raise_for_status(); response.content
Fetch(media_url, env) ==
    IF media_url.t # "str"
    THEN [ok |-> FALSE, origin |-> "bad_url_type", data |-> "", log |-> <<>>,
          exc |-> "Invalid type for url.  Expected str or httpx.URL, got "
                  \o PyTypeName(media_url)]
    ELSE LET log == <<Call("fetch", media_url.v, env.fetch)>>
         IN  IF env.fetch.kind = "connect_error"
             THEN [ok |-> FALSE, origin |-> "fetch", data |-> "", log |-> log,
                   exc |-> env.fetch.text]
             ELSE IF env.fetch.kind = "http_error"
             THEN [ok |-> FALSE, origin |-> "http_status", data |-> "", log |-> log,
                   exc |-> env.fetch.text]
             ELSE [ok |-> TRUE, origin |-> "none", data |-> "url:" \o media_url.v,
                   log |-> log, exc |-> ""]

\* _scan_image(media_url, media_b64); the except clause re-raises what it caught.
_scan_image(media_url, media_b64, vm, env) ==
    IF Truthy(media_b64)
    THEN LET d == b64decode(media_b64)
         IN  IF ~d.ok THEN Raise("decode", d.exc, <<>>)
             ELSE VisionCall(vm, d.data, env, <<>>)
    ELSE IF Truthy(media_url)
    THEN LET f == Fetch(media_url, env)
         IN  IF ~f.ok THEN Raise(f.origin, f.exc, f.log)
             ELSE VisionCall(vm, f.data, env, f.log)
    ELSE Return(NoImageVerdict, <<>>)

-----------------------------------------------------------------------------
(* _scan_video_frame *)

NoFrameVerdict ==
    [is_safe |-> JTrue, moderation_status |-> "approved",
     flag_reason |-> JStr("Video moderation requires frame extraction - manual review suggested"),
     model_used |-> "none (video - needs frame extraction)"]

VideoErrorVerdict(exc) ==
    [is_safe |-> JTrue, moderation_status |-> "approved",
     flag_reason |-> JStr("Video scan error: " \o exc), model_used |-> "error"]

\* The body of the try block: which scan the video is handed to.
VideoTry(media_url, media_b64, vm, env) ==
    IF Truthy(media_b64) THEN _scan_image(JNull, media_b64, vm, env)
    ELSE IF ~Truthy(media_url) THEN Return(NoFrameVerdict, <<>>)
    ELSE IF media_url.t # "str"
    THEN Raise("bad_url_type",
               "'" \o PyTypeName(media_url) \o "' object has no attribute 'endswith'", <<>>)
    ELSE IF EndsWith(media_url.v, ".jpg") \/ EndsWith(media_url.v, ".png")
    THEN _scan_image(media_url, JNull, vm, env)
    ELSE Return(NoFrameVerdict, <<>>)

\* Faulty variant of VideoCatch: the exception is raised again.
VideoCatch_Propagate(r) == r

\* The except clause of _scan_video_frame: the exception becomes a verdict.
VideoCatch(r) ==
    IF r.raised
    THEN [raised |-> FALSE, exc |-> r.exc, origin |-> r.origin, caught |-> "video",
          value |-> VideoErrorVerdict(r.exc), calls |-> r.calls]
    ELSE r

\* Faulty variant of _scan_video_frame: no try block around the body.
_scan_video_frame_NoCatch(media_url, media_b64, vm, env) ==
    VideoTry(media_url, media_b64, vm, env)

_scan_video_frame(media_url, media_b64, vm, env) ==
    VideoCatch(VideoTry(media_url, media_b64, vm, env))

-----------------------------------------------------------------------------
(* moderate_content *)

PreflightHeaders ==
    ("Access-Control-Allow-Origin" :> "*")
    @@ ("Access-Control-Allow-Methods" :> "POST")
    @@ ("Access-Control-Allow-Headers" :> "Content-Type")
    @@ ("Access-Control-Max-Age" :> "3600")

Headers == ("Access-Control-Allow-Origin" :> "*")

\* The body "" of the preflight answer.
EmptyBody == [text |-> ""]

AudioVerdict ==
    [is_safe |-> JTrue, moderation_status |-> "approved", flag_reason |-> JNull,
     model_used |-> "none (audio - manual review suggested)"]

\* Faulty variant of FailOpenVerdict: the handler fails closed.
FailOpenVerdict_Closed(exc) ==
    [is_safe |-> JFalse, moderation_status |-> "flagged",
     flag_reason |-> JStr("Agent Error: " \o exc), model_used |-> "error"]

FailOpenVerdict(exc) ==
    [is_safe |-> JTrue, moderation_status |-> "approved",
     flag_reason |-> JStr("Agent Error: " \o exc), model_used |-> "error"]

\* Faulty variant of get_json: a body that is no JSON reads as an empty text request.
get_json_Lenient(body) ==
    IF body.kind = "json" THEN body.json ELSE JObj({<<"content", JStr("")>>})

\* request.get_json(silent=True): None unless the body holds a JSON document.
get_json(body) == IF body.kind = "json" THEN body.json ELSE JNull

\* The if / elif chain on content_type: the branch taken.
Dispatch(content_type) ==
    IF PyEqStr(content_type, "text") THEN "text"
    ELSE IF PyEqStr(content_type, "image") THEN "image"
    ELSE IF PyEqStr(content_type, "video") THEN "video"
    ELSE IF PyEqStr(content_type, "audio") THEN "audio"
    ELSE "default"

\* The statement of the branch taken.
RunRoute(route, content_text, media_url, media_b64, vm, env) ==
    CASE route = "text" -> _scan_text(content_text, env)
      [] route = "image" -> _scan_image(media_url, media_b64, vm, env)
      [] route = "video" -> _scan_video_frame(media_url, media_b64, vm, env)
      [] route = "audio" -> Return(AudioVerdict, <<>>)
      [] OTHER -> _scan_text(content_text, env)

NoError == [origin |-> "none", exc |-> "", caught |-> "none"]

\* What a run of the handler leaves behind: the response tuple, the external
\* calls made, the branch taken and the exception met on the way, if any.
Outcome(body, status, headers, log, route, err) ==
    [response |-> [body |-> body, status |-> status, headers |-> headers],
     calls |-> log, route |-> route, error |-> err]

\* Faulty variant of Envelope: an exception is answered with a server error.
Envelope_ServerError(r, route) ==
    IF r.raised
    THEN Outcome([error |-> r.exc], HTTP_SERVER_ERROR, Headers, r.calls, route,
                 [origin |-> r.origin, exc |-> r.exc, caught |-> "envelope"])
    ELSE Outcome(r.value, HTTP_OK, Headers, r.calls, route,
                 [origin |-> r.origin, exc |-> r.exc, caught |-> r.caught])

\* The try / except around the routing: a result is returned as it is, an
\* exception becomes the fail-open verdict.
Envelope(r, route) ==
    IF r.raised
    THEN Outcome(FailOpenVerdict(r.exc), HTTP_OK, Headers, r.calls, route,
                 [origin |-> r.origin, exc |-> r.exc, caught |-> "envelope"])
    ELSE Outcome(r.value, HTTP_OK, Headers, r.calls, route,
                 [origin |-> r.origin, exc |-> r.exc, caught |-> r.caught])

\* Faulty variant of ModelsMissing: the configuration check never fires.
ModelsMissing_Never(tm, vm) == FALSE

\* The configuration check: `not text_model`.
ModelsMissing(tm, vm) == ~tm

moderate_content(tm, vm, req, env) ==
    IF req.method = "OPTIONS"
    THEN Outcome(EmptyBody, HTTP_NO_CONTENT, PreflightHeaders, <<>>, "none", NoError)
    ELSE IF ModelsMissing(tm, vm)
    THEN Outcome([error |-> "Configuration error: Models not initialized"],
                 HTTP_SERVER_ERROR, Headers, <<>>, "none", NoError)
    ELSE LET request_json == get_json(req.body)
         IN  IF ~Truthy(request_json)
             THEN Outcome([error |-> "Invalid JSON"], HTTP_BAD_REQUEST, Headers,
                          <<>>, "none", NoError)
             ELSE IF request_json.t # "object"
             THEN Outcome([error |-> "Bad Request"], HTTP_BAD_REQUEST, Headers,
                          <<>>, "none", NoError)
             ELSE LET content_text == DictGet(request_json.o, "content", JStr(""))
                      media_url == DictGet(request_json.o, "media_url", JNull)
                      media_b64 == DictGet(request_json.o, "media_b64", JNull)
                      content_type == DictGet(request_json.o, "content_type", JStr("text"))
                      route == Dispatch(content_type)
                  IN  Envelope(RunRoute(route, content_text, media_url, media_b64, vm, env),
                               route)

-----------------------------------------------------------------------------
(* Inputs: the requests a client can send and what the outside world does *)

\* A key the JSON object does not hold.
Absent == [t |-> "absent", v |-> "", o |-> {}]

\* The JSON object with the keys of f that are not Absent.
MkObject(f) == JObj({<<k, f[k]>> : k \in {x \in DOMAIN f : f[x].t # "absent"}})

Contents == {Absent, JStr("lovely walk by the river")}

ContentTypes ==
    {Absent, JNull, JStr("text"), JStr("image"), JStr("video"), JStr("audio"), JStr("gif")}

MediaUrls ==
    {Absent, JStr(""), JStr("https://cdn.example/a.jpg"), JStr("https://cdn.example/a.png"),
     JStr("https://cdn.example/a.mp4"), JNum("5")}

MediaB64s == {Absent, JStr("QUJD"), JStr("Q"), JNum("5")}

Objects ==
    {MkObject([content |-> c, media_url |-> u, media_b64 |-> b, content_type |-> ct]) :
        c \in Contents, u \in MediaUrls, b \in MediaB64s, ct \in ContentTypes}

JsonBody(j) == [kind |-> "json", json |-> j]

Bodies ==
    {[kind |-> "empty", json |-> JNull], [kind |-> "malformed", json |-> JNull]}
    \cup {JsonBody(j) : j \in {JNull, JNum("0"), JArr("[]"), JArr("[1]"), JStr("x")}}
    \cup {JsonBody(o) : o \in Objects}

Methods == {"OPTIONS", "POST"}

Requests == [method : Methods, body : Bodies]

\* Texts the oracle may answer with: a document, bare or inside a code fence.
Documents ==
    DOMAIN JsonTable \cup {"I cannot help.", "", "{\"is_safe\": true"}

FencedDocuments ==
    {"{\"is_safe\": true, \"flag_reason\": null}",
     "{\"is_safe\": false, \"flag_reason\": \"hate\"}",
     "{\"flag_reason\": \"spam\"}",
     "I cannot help."}

OracleTexts ==
    Documents
    \cup {Fence \o "json\n" \o d \o "\n" \o Fence : d \in FencedDocuments}
    \cup {Fence \o "\n" \o d \o "\n" \o Fence \o "\n" : d \in FencedDocuments}

OracleOutcomes ==
    {[kind |-> "raise", text |-> "503 Service Unavailable"],
     [kind |-> "blocked", text |-> "response.text requires a valid Part"]}
    \cup {[kind |-> "text", text |-> t] : t \in OracleTexts}

FetchOutcomes ==
    {[kind |-> "ok", text |-> ""],
     [kind |-> "connect_error", text |-> "All connection attempts failed"],
     [kind |-> "http_error", text |-> "Client error '404 Not Found'"]}

Envs == [fetch : FetchOutcomes, oracle : OracleOutcomes]

-----------------------------------------------------------------------------
(* The state machine: a process that serves one request at a time *)

NoRequest == [method |-> "", body |-> [kind |-> "empty", json |-> JNull]]

NoResponse == [body |-> EmptyBody, status |-> 0, headers |-> <<>>]

Init ==
    /\ \E api_key \in BOOLEAN, text_ctor_ok \in BOOLEAN, vision_ctor_ok \in BOOLEAN :
          LET handles == ModuleInit(api_key, text_ctor_ok, vision_ctor_ok)
          IN  /\ text_model = handles[1]
              /\ vision_model = handles[2]
    /\ phase = "idle"
    /\ request = NoRequest
    /\ response = NoResponse
    /\ calls = <<>>
    /\ branch = "none"
    /\ error = NoError
    /\ served = 0

\* One invocation of moderate_content, from the request to the returned tuple.
Serve ==
    /\ phase = "idle"
    /\ served < MaxRequests
    /\ \E req \in Requests, env \in Envs :
          LET o == moderate_content(text_model, vision_model, req, env)
          IN  /\ request' = req
              /\ response' = o.response
              /\ calls' = o.calls
              /\ branch' = o.route
              /\ error' = o.error
    /\ phase' = "done"
    /\ UNCHANGED <<text_model, vision_model, served>>

\* The invocation is over: nothing of it is kept but the model handles.
Finish ==
    /\ phase = "done"
    /\ phase' = "idle"
    /\ request' = NoRequest
    /\ response' = NoResponse
    /\ calls' = <<>>
    /\ branch' = "none"
    /\ error' = NoError
    /\ served' = served + 1
    /\ UNCHANGED <<text_model, vision_model>>

Next == Serve \/ Finish

Spec == Init /\ [][Next]_vars

-----------------------------------------------------------------------------
(* Vocabulary of the properties *)

Done == phase = "done"

\* The request carried a JSON object.
IsObjectBody == request.body.kind = "json" /\ request.body.json.t = "object"

\* A field of the request's JSON object, None when the key is missing.
Field(key) == DictGet(request.body.json.o, key, JNull)

HasField(key) == key \in Keys(request.body.json.o)

\* The response carries a verdict (every verdict is sent with status 200).
HasVerdict == Done /\ response.status = HTTP_OK

OracleCalls == {i \in DOMAIN calls : calls[i].op = "oracle"}

FetchCalls == {i \in DOMAIN calls : calls[i].op = "fetch"}

\* What the oracle answered in this invocation (meaningful when it was called).
OracleOut ==
    IF OracleCalls = {} THEN [kind |-> "raise", text |-> "not called"]
    ELSE calls[CHOOSE i \in OracleCalls : TRUE].out

FetchOut ==
    IF FetchCalls = {} THEN [kind |-> "ok", text |-> ""]
    ELSE calls[CHOOSE i \in FetchCalls : TRUE].out

\* generate_content raised.
OracleRaised == OracleCalls # {} /\ OracleOut.kind = "raise"

\* The oracle returned a text that, cleaned, parses to a JSON object.
OracleParsed ==
    /\ OracleCalls # {}
    /\ OracleOut.kind = "text"
    /\ JsonLoads(Clean(OracleOut.text)).ok
    /\ JsonLoads(Clean(OracleOut.text)).value.t = "object"

OracleObject == JsonLoads(Clean(OracleOut.text)).value.o

\* The model name a verdict of the branch taken should carry.
RealModel == IF branch \in {"image", "video"} THEN VISION_MODEL ELSE TEXT_MODEL

KnownContentTypes == {"text", "image", "video", "audio"}

-----------------------------------------------------------------------------
(* C1 *)

\* C1: in every verdict, whatever path produced it and whatever the oracle
\* returned, moderation_status is "flagged" exactly when is_safe is false and
\* "approved" exactly when is_safe is true.
C1_StatusIffIsSafe ==
    HasVerdict =>
        /\ (response.body.moderation_status = "flagged") <=> (response.body.is_safe = JFalse)
        /\ (response.body.moderation_status = "approved") <=> (response.body.is_safe = JTrue)

-----------------------------------------------------------------------------
(* C2 *)

\* C2 as stated: once the configuration check and the body parsing are passed,
\* any error raised by the routing or by a scanner ends the request with status
\* 200 and exactly the verdict "Agent Error: <cause>" of the envelope.
C2_EveryErrorIsAgentError ==
    (Done /\ error.origin # "none") =>
        /\ response.status = HTTP_OK
        /\ response.body = FailOpenVerdict(error.exc)

\* C2 as amended: every such error ends the request with status 200 and an
\* approved verdict with model_used "error"; its flag_reason is
\* "Agent Error: <cause>" unless the request is a video request, where the video
\* scanner has caught the error and the reason is "Video scan error: <cause>".
C2_EveryErrorFailsOpen ==
    (Done /\ error.origin # "none") =>
        /\ response.status = HTTP_OK
        /\ response.body.is_safe = JTrue
        /\ response.body.moderation_status = "approved"
        /\ response.body.model_used = "error"
        /\ response.body.flag_reason =
              JStr((IF branch = "video" THEN "Video scan error: " ELSE "Agent Error: ")
                   \o error.exc)
        /\ error.caught = (IF branch = "video" THEN "video" ELSE "envelope")

\* An image request whose base64 payload does not decode.
C2_Witness ==
    /\ Done
    /\ branch = "image"
    /\ error.origin = "decode"
    /\ error.caught = "envelope"
    /\ response.body.model_used = "error"

-----------------------------------------------------------------------------
(* C3 *)

-----------------------------------------------------------------------------
(* C4 *)

\* C4 as stated: a request whose body is empty or is not JSON is answered with
\* status 400, and no scanner runs and the oracle is not called.
C4_BadBodyAlways400 ==
    (Done /\ request.body.kind \in {"empty", "malformed"}) =>
        /\ response.status = HTTP_BAD_REQUEST
        /\ branch = "none"
        /\ calls = <<>>

\* C4 as amended: such a request is answered with status 400 when it is not an
\* OPTIONS preflight (answered 204) and text_model is initialized (otherwise
\* 500); in all three cases no scanner runs and no external call is made.
C4_BadBody400 ==
    (Done /\ request.body.kind \in {"empty", "malformed"}) =>
        /\ response.status =
              (IF request.method = "OPTIONS" THEN HTTP_NO_CONTENT
               ELSE IF ~text_model THEN HTTP_SERVER_ERROR
               ELSE HTTP_BAD_REQUEST)
        /\ branch = "none"
        /\ calls = <<>>

\* A POST with a malformed body, refused by an initialized process.
C4_Witness ==
    /\ Done
    /\ text_model
    /\ request.method = "POST"
    /\ request.body.kind = "malformed"
    /\ response.status = HTTP_BAD_REQUEST
    /\ response.body = [error |-> "Invalid JSON"]

-----------------------------------------------------------------------------
(* C5 *)

\* The dict d with key set to val.
WithField(d, key, val) == {p \in d : p[1] # key} \cup {<<key, val>>}

\* The request of the state with content_type "text" in place of its own.
AsTextRequest ==
    [method |-> request.method,
     body |-> JsonBody(JObj(WithField(request.body.json.o, "content_type", JStr("text"))))]

\* The request of the state reduced to its content, with content_type "text".
AsBareTextRequest ==
    [method |-> request.method,
     body |-> JsonBody(JObj({p \in request.body.json.o : p[1] = "content"}
                            \cup {<<"content_type", JStr("text")>>}))]

\* The outside world as this invocation met it.
SameWorld == [fetch |-> FetchOut, oracle |-> OracleOut]

UnknownContentType ==
    /\ IsObjectBody
    /\ ~(\E ct \in KnownContentTypes : PyEqStr(Field("content_type"), ct))

\* C5: a request whose content_type is none of text, image, video, audio
\* (absent and null included) gets the response, and makes the external calls,
\* of the same request with content_type "text", for every oracle behaviour;
\* media_url and media_b64 change nothing.
C5_UnknownTypeIsText ==
    (Done /\ UnknownContentType) =>
        LET twin == moderate_content(text_model, vision_model, AsTextRequest, SameWorld)
            bare == moderate_content(text_model, vision_model, AsBareTextRequest, SameWorld)
        IN  /\ response = twin.response
            /\ calls = twin.calls
            /\ response = bare.response
            /\ calls = bare.calls
            /\ FetchCalls = {}

\* C5, where it does hold: the same, for every request whose JSON object holds
\* at least one key.  The object {} is falsy and is refused with status 400,
\* while {"content_type": "text"} is scanned.
C5_UnknownTypeIsTextUnlessEmpty ==
    (Done /\ UnknownContentType /\ request.body.json.o # {}) => C5_UnknownTypeIsText

-----------------------------------------------------------------------------
(* C6 *)

\* C6: a video request never reaches the except branch of moderate_content:
\* whatever fails under _scan_video_frame (decode, fetch, transfer status,
\* oracle call, oracle output), the scanner returns an approved verdict whose
\* flag_reason carries the error.
C6_VideoNeverRaises ==
    (Done /\ branch = "video") =>
        /\ error.caught # "envelope"
        /\ response.status = HTTP_OK
        /\ (error.origin # "none" =>
              /\ response.body.is_safe = JTrue
              /\ response.body.moderation_status = "approved"
              /\ response.body.flag_reason.t = "str"
              /\ EndsWith(response.body.flag_reason.v, error.exc)
              /\ StartsWith(response.body.flag_reason.v, "Video scan error"))

\* A video request whose thumbnail could not be fetched.
C6_Witness ==
    /\ Done
    /\ branch = "video"
    /\ error.origin = "fetch"
    /\ FetchCalls # {}
    /\ FetchOut.kind = "connect_error"
    /\ response.body.moderation_status = "approved"

-----------------------------------------------------------------------------
(* C7 *)

\* C7 as stated: whenever generate_content raises, on a text, image or video
\* request, the failure reaches the envelope and the response is its verdict
\* "Agent Error: <cause>" with model_used "error".
C7_OracleFailureReachesEnvelope ==
    (Done /\ OracleRaised) =>
        /\ error.caught = "envelope"
        /\ response.body = FailOpenVerdict(OracleOut.text)

\* C7 as amended: when generate_content raises on a text or image request (or
\* one routed to the text scanner by default) the failure reaches the envelope
\* and the response is its verdict "Agent Error: <cause>"; on a video request
\* the video scanner catches it and the response is the approved verdict
\* "Video scan error: <cause>" with model_used "error".
C7_OracleFailureByBranch ==
    (Done /\ OracleRaised) =>
        /\ response.status = HTTP_OK
        /\ error.origin = "oracle_call"
        /\ (branch # "video" =>
              /\ error.caught = "envelope"
              /\ response.body = FailOpenVerdict(OracleOut.text))
        /\ (branch = "video" =>
              /\ error.caught = "video"
              /\ response.body = VideoErrorVerdict(OracleOut.text))

\* A video request handed to the image scanner, where the oracle call raised.
C7_Witness ==
    /\ Done
    /\ OracleRaised
    /\ branch = "video"
    /\ response.body.model_used = "error"

-----------------------------------------------------------------------------
(* C8 *)

\* C8: one invocation makes at most one remote fetch and at most one oracle
\* call, the fetch before the oracle call, and never repeats a call that
\* failed.
C8_OneFetchOneOracleCall ==
    Done =>
        /\ Cardinality(FetchCalls) <= 1
        /\ Cardinality(OracleCalls) <= 1
        /\ \A i \in FetchCalls, j \in OracleCalls : i < j
        /\ (FetchCalls # {} /\ FetchOut.kind # "ok") => Len(calls) = 1
        /\ (OracleCalls # {} /\ OracleOut.kind # "text") =>
              calls[Len(calls)].op = "oracle"

\* A video request whose thumbnail was fetched and then shown to the oracle.
C8_Witness ==
    /\ Done
    /\ branch = "video"
    /\ Len(calls) = 2
    /\ calls[1].op = "fetch"
    /\ calls[2].op = "oracle"

-----------------------------------------------------------------------------
(* C9 *)

\* C9: when the oracle's output parses to an object without is_safe, the
\* scanner's verdict is is_safe false and "flagged", with the real model name,
\* and it is returned as it is, not replaced by an approved verdict.
C9_MissingIsSafeFlags ==
    (Done /\ OracleParsed /\ "is_safe" \notin Keys(OracleObject)) =>
        /\ response.status = HTTP_OK
        /\ response.body.is_safe = JFalse
        /\ response.body.moderation_status = "flagged"
        /\ response.body.model_used = RealModel
        /\ response.body.flag_reason = DictGet(OracleObject, "flag_reason", JNull)
        /\ error = NoError

\* An image request answered, inside a code fence, with a reason and no is_safe.
C9_Witness ==
    /\ Done
    /\ branch = "image"
    /\ OracleCalls # {}
    /\ OracleOut = [kind |-> "text",
                    text |-> Fence \o "json\n{\"flag_reason\": \"spam\"}\n" \o Fence]
    /\ response.body.moderation_status = "flagged"

-----------------------------------------------------------------------------
(* C10 *)

\* C10: a flagged verdict is produced only after an oracle call of the same
\* request returned an answer that parsed, and carries the real model name;
\* where the oracle was not called, or a fetch, a decode, the oracle call or the
\* parse failed, the verdict is is_safe true and "approved".
C10_FlaggedOnlyByOracle ==
    HasVerdict =>
        /\ (response.body.moderation_status = "flagged" =>
              /\ OracleParsed
              /\ error = NoError
              /\ response.body.model_used = RealModel)
        /\ ((OracleCalls = {} \/ ~OracleParsed \/ error.origin # "none") =>
              /\ response.body.is_safe = JTrue
              /\ response.body.moderation_status = "approved")

\* A video request flagged on the oracle's word.
C10_Witness ==
    /\ HasVerdict
    /\ branch = "video"
    /\ OracleParsed
    /\ response.body.moderation_status = "flagged"
    /\ response.body.is_safe = JFalse

=============================================================================
